---- MODULE Spec2Model ----
(***************************************************************************)
(* Cerberus-over-TCP host port (e2e/src/support/tcp.rs) and the RSA        *)
(* modulus-length / error helpers (src/crypto/rsa.rs) of Manticore.        *)
(*                                                                         *)
(* The module describes one endpoint at a time (variable role): the        *)
(* TcpHostPort server ("host"), whose peer is an arbitrary client, or the  *)
(* send_local client ("client"), whose peer is an arbitrary server.        *)
(***************************************************************************)
EXTENDS Integers, Sequences, FiniteSets, TLC

VARIABLES
    role,           \* which endpoint this run describes
    stream,         \* Inner.stream: Option<(CerberusHeader, usize, TcpStream)>
    output_buffer,  \* Inner.output_buffer: Option<Writer>
    nconn,          \* how many connections the endpoint has opened so far
    conn,           \* the TcpStream most recently opened (open while the endpoint holds it)
    last,           \* the last call made on the endpoint and what it returned
    Cmd,            \* send_local's type parameter: the request and response types
    pc,             \* where send_local stands
    resp_header,    \* send_local's local `header`
    reader,         \* send_local's local `r`: Reader(TcpStream, usize)
    codec,          \* a header and a length taken through the codec
    rsa             \* a value taken through the crypto::rsa helpers

client == <<Cmd, pc, resp_header, reader>>
vars == <<role, stream, output_buffer, nconn, conn, last, client, codec, rsa>>

----------------------------------------------------------------------------
(* Bounds of the model. *)

\* accepted connections per run
MaxConns == 2
\* largest payload length a peer declares in a request header
MaxPayloadLen == 2
\* largest number of payload bytes a peer actually transmits
MaxAvail == 2
\* largest number of bytes buffered in a response Writer
MaxBuf == 2
\* largest size of a single read_bytes request
MaxRead == 3
\* complete frames written to one connection
MaxFrames == 2
\* how far past the largest u16 the buffer lengths given to the codec go
MaxOverflow == 2

\* width in bits of the machine word (usize) given to the crypto::rsa helpers:
\* the word is narrowed, its arithmetic wrapping modulo 2^WordBits as the
\* target's wraps modulo 2^64
WordBits == 16

\* u16::MAX, the largest value of the wire header's length field
U16_MAX == 65535

----------------------------------------------------------------------------
(* manticore::protocol::CommandType and its wire values.  The enum lives   *)
(* in the protocol crate; it is a closed enumeration mapped bijectively to *)
(* single bytes with one value reserved for protocol errors.               *)

CommandType == {"Cmd01", "Cmd02", "Error"}

to_wire_value(c) ==
    CASE c = "Cmd01" -> 1
      [] c = "Cmd02" -> 2
      [] c = "Error" -> 127

NoCommand == "NoCommand"

from_wire_value(b) ==
    IF \E c \in CommandType : to_wire_value(c) = b
    THEN CHOOSE c \in CommandType : to_wire_value(c) = b
    ELSE NoCommand

\* bytes that are the wire value of no CommandType
BadCmdBytes == {0}
CmdBytes == {to_wire_value(c) : c \in CommandType} \cup BadCmdBytes

\* payload bytes a caller writes through sink()
SinkBytes == {170, 187}

----------------------------------------------------------------------------
(* Option values. *)

None == [some |-> FALSE]
SomeStream(h, n) == [some |-> TRUE, header |-> h, len |-> n]

\* Writer::new
Writer_new(h) == [some |-> TRUE, header |-> h, buf |-> <<>>]

NoHdr == "-"

----------------------------------------------------------------------------
(* The wire header codec. *)

\* u16::from_le_bytes([len_lo, len_hi])
from_le_bytes(lo, hi) == lo + 256 * hi

\* the length bytes written high byte first
to_be_bytes(n) == <<(n % (U16_MAX + 1)) \div 256, (n % (U16_MAX + 1)) % 256>>

\* (n as u16).to_le_bytes()
to_le_bytes(n) == <<(n % (U16_MAX + 1)) % 256, (n % (U16_MAX + 1)) \div 256>>

\* The three header bytes Writer::finish emits for a header and a buffer of n bytes.
wire_header(h, n) == <<to_wire_value(h)>> \o to_le_bytes(n)

\* header_from_wire rejecting the command byte as soon as it has read it
header_from_wire_eager(p) ==
    IF p.sent < 1
    THEN [res |-> "Io(Internal)", header |-> NoHdr, len |-> 0, took |-> p.sent]
    ELSE IF from_wire_value(p.cmd) = NoCommand
    THEN [res |-> "BadHeader", header |-> NoHdr, len |-> 0, took |-> 1]
    ELSE IF p.sent < 3
    THEN [res |-> "Io(Internal)", header |-> NoHdr, len |-> 0, took |-> p.sent]
    ELSE [res |-> "Ok", header |-> from_wire_value(p.cmd),
          len |-> from_le_bytes(p.lo, p.hi), took |-> 3]

\* header_from_wire over a peer that transmits p.sent bytes in all, the first
\* three being <<p.cmd, p.lo, p.hi>>.  took: bytes consumed from the stream.
header_from_wire(p) ==
    IF p.sent < 3
    THEN [res |-> "Io(Internal)", header |-> NoHdr, len |-> 0, took |-> p.sent]
    ELSE IF from_wire_value(p.cmd) = NoCommand
    THEN [res |-> "BadHeader", header |-> NoHdr, len |-> 0, took |-> 3]
    ELSE [res |-> "Ok", header |-> from_wire_value(p.cmd),
          len |-> from_le_bytes(p.lo, p.hi), took |-> 3]

\* Writer::finish(w) onto a transport whose writes fail as `fail` says:
\* "header" (the header write_all fails after k bytes), "payload" (the
\* payload write_all fails after k bytes) or anything else (no write fails).
Writer_finish(w, fail, k) ==
    LET hdr == wire_header(w.header, Len(w.buf))
    IN  IF fail = "header"
        THEN [res |-> "Io(BufferExhausted)", wrote |-> SubSeq(hdr, 1, k)]
        ELSE IF fail = "payload"
        THEN [res |-> "Io(BufferExhausted)", wrote |-> hdr \o SubSeq(w.buf, 1, k)]
        ELSE [res |-> "Ok", wrote |-> hdr \o w.buf]

----------------------------------------------------------------------------
(* impl HostRequest / HostResponse / io::Read for Inner, as functions of   *)
(* the session state (s = stream, ob = output_buffer).                      *)

Inner_header(s, ob) ==
    IF ob.some THEN [res |-> "OutOfOrder", hdr |-> NoHdr]
    ELSE IF s.some THEN [res |-> "Ok", hdr |-> s.header]
    ELSE [res |-> "Disconnected", hdr |-> NoHdr]

\* payload() without the check for a begun reply
Inner_payload_unordered(s, ob) ==
    IF ~s.some THEN [res |-> "Disconnected"] ELSE [res |-> "Ok"]

Inner_payload(s, ob) ==
    IF ~s.some THEN [res |-> "Disconnected"]
    ELSE IF ob.some THEN [res |-> "OutOfOrder"]
    ELSE [res |-> "Ok"]

\* reply() starting a fresh Writer over a pending one
Inner_reply_overwrite(s, ob, h) ==
    IF ~s.some THEN [res |-> "Disconnected", output_buffer |-> ob]
    ELSE [res |-> "Ok", output_buffer |-> Writer_new(h)]

Inner_reply(s, ob, h) ==
    IF ~s.some THEN [res |-> "Disconnected", output_buffer |-> ob]
    ELSE IF ob.some THEN [res |-> "OutOfOrder", output_buffer |-> ob]
    ELSE [res |-> "Ok", output_buffer |-> Writer_new(h)]

\* sink() reporting every unmet precondition as Disconnected
Inner_sink_collapsed(s, ob) ==
    IF s.some /\ ob.some THEN [res |-> "Ok"] ELSE [res |-> "Disconnected"]

Inner_sink(s, ob) ==
    IF ~s.some THEN [res |-> "Disconnected"]
    ELSE IF ob.some THEN [res |-> "Ok"]
    ELSE [res |-> "OutOfOrder"]

\* write_bytes putting the new bytes in front of the buffered ones
write_bytes_front(w, data) == [w EXCEPT !.buf = data \o @]

\* impl io::Write for Writer
write_bytes(w, data) == [w EXCEPT !.buf = @ \o data]

\* finish() without the `self.stream = None` after the flush
Inner_finish_keeps_stream(s, ob, fail, k) ==
    IF s.some /\ ob.some
    THEN LET r == Writer_finish(ob, fail, k)
         IN  IF r.res # "Ok"
             THEN [res |-> r.res, stream |-> s, output_buffer |-> None,
                   wrote |-> r.wrote]
             ELSE IF fail = "flush"
             THEN [res |-> "Io(Internal)", stream |-> s, output_buffer |-> None,
                   wrote |-> r.wrote]
             ELSE [res |-> "Ok", stream |-> s, output_buffer |-> None,
                   wrote |-> r.wrote]
    ELSE [res |-> "Disconnected", stream |-> s, output_buffer |-> ob, wrote |-> <<>>]

\* finish() whose fallback arm also clears the session
Inner_finish_clears(s, ob, fail, k) ==
    IF s.some /\ ob.some
    THEN LET r == Writer_finish(ob, fail, k)
         IN  IF r.res # "Ok"
             THEN [res |-> r.res, stream |-> s, output_buffer |-> None,
                   wrote |-> r.wrote]
             ELSE IF fail = "flush"
             THEN [res |-> "Io(Internal)", stream |-> s, output_buffer |-> None,
                   wrote |-> r.wrote]
             ELSE [res |-> "Ok", stream |-> None, output_buffer |-> None,
                   wrote |-> r.wrote]
    ELSE [res |-> "Disconnected", stream |-> None, output_buffer |-> None,
          wrote |-> <<>>]

\* Inner::finish.  fail: which transport operation fails ("none", "header",
\* "payload", "flush"); k: bytes the failing write_all got out.
Inner_finish(s, ob, fail, k) ==
    IF s.some /\ ob.some
    THEN LET r == Writer_finish(ob, fail, k)
         IN  IF r.res # "Ok"
             THEN [res |-> r.res, stream |-> s, output_buffer |-> None,
                   wrote |-> r.wrote]
             ELSE IF fail = "flush"
             THEN [res |-> "Io(Internal)", stream |-> s, output_buffer |-> None,
                   wrote |-> r.wrote]
             ELSE [res |-> "Ok", stream |-> None, output_buffer |-> None,
                   wrote |-> r.wrote]
    ELSE [res |-> "Disconnected", stream |-> s, output_buffer |-> ob, wrote |-> <<>>]

\* read_bytes taking the size off the budget before the read_exact
Inner_read_bytes_eager(s, avail, n) ==
    IF ~s.some THEN [res |-> "Internal", stream |-> s, took |-> 0]
    ELSE IF s.len < n THEN [res |-> "BufferExhausted", stream |-> s, took |-> 0]
    ELSE IF avail < n
    THEN [res |-> "Internal", stream |-> [s EXCEPT !.len = @ - n], took |-> avail]
    ELSE [res |-> "Ok", stream |-> [s EXCEPT !.len = @ - n], took |-> n]

\* read_bytes comparing the budget with <= instead of <
Inner_read_bytes_strict(s, avail, n) ==
    IF ~s.some THEN [res |-> "Internal", stream |-> s, took |-> 0]
    ELSE IF s.len <= n THEN [res |-> "BufferExhausted", stream |-> s, took |-> 0]
    ELSE IF avail < n THEN [res |-> "Internal", stream |-> s, took |-> avail]
    ELSE [res |-> "Ok", stream |-> [s EXCEPT !.len = @ - n], took |-> n]

\* Inner::read_bytes for an out buffer of n bytes; avail: the bytes the peer
\* has still to deliver on the connection.  A read_exact that meets the end
\* of the stream consumes what was there and fails.
Inner_read_bytes(s, avail, n) ==
    IF ~s.some THEN [res |-> "Internal", stream |-> s, took |-> 0]
    ELSE IF s.len < n THEN [res |-> "BufferExhausted", stream |-> s, took |-> 0]
    ELSE IF avail < n THEN [res |-> "Internal", stream |-> s, took |-> avail]
    ELSE [res |-> "Ok", stream |-> [s EXCEPT !.len = @ - n], took |-> n]

\* Inner::remaining_data
Inner_remaining_data(s) == IF s.some THEN s.len ELSE 0

----------------------------------------------------------------------------
(* State. *)

\* op: the call; res: its result; hdr: the header it returned or was given;
\* n: the size of the read or write, or the payload length that the header
\* receive() parsed declares; took: the bytes it consumed from the
\* transport; wrote: the bytes it wrote to the transport
Ret(op, res, hdr, n, took, wrote) ==
    [op |-> op, res |-> res, hdr |-> hdr, n |-> n, took |-> took, wrote |-> wrote]

\* a TcpStream: avail, the bytes the peer has sent that are still unread;
\* frames, how many complete frames have been written to the peer; begun,
\* whether the pending Writer comes from a reply() made on this connection
NoConn == [avail |-> 0, frames |-> 0, begun |-> FALSE]

\* dropping the TcpStream closes the socket: nothing more can be read from it
Dropped(c) == [c EXCEPT !.avail = 0, !.begun = FALSE]

\* what a connecting client transmits before it stops sending: p.sent bytes
\* in all, of which the first three are <<p.cmd, p.lo, p.hi>>
PeerFrames ==
    [cmd : {0}, lo : {0}, hi : {0}, sent : 0..2]
    \cup [cmd : CmdBytes, lo : 0..MaxPayloadLen, hi : {0}, sent : 3..(3 + MaxAvail)]

\* each such transmission with what header_from_wire makes of it
Arrivals == {[p |-> p, r |-> header_from_wire(p)] : p \in PeerFrames}

\* the command types a request or a success response can carry
MessageTypes == CommandType \ {"Error"}

NoCodec == [pc |-> "-"]
NoRsa == [pc |-> "-"]

\* TcpHostPort::bind
HostInit ==
    /\ role = "host"
    /\ stream = None
    /\ output_buffer = None
    /\ nconn = 0
    /\ conn = NoConn
    /\ last = Ret("bind", "Ok", NoHdr, 0, 0, <<>>)
    /\ Cmd = [req |-> NoHdr, resp |-> NoHdr]
    /\ pc = "-"
    /\ resp_header = NoHdr
    /\ reader = None
    /\ codec = NoCodec
    /\ rsa = NoRsa

\* a call of send_local::<Cmd>
ClientInit ==
    /\ role = "client"
    /\ stream = None
    /\ output_buffer = None
    /\ nconn = 0
    /\ conn = NoConn
    /\ last = Ret("send_local", "-", NoHdr, 0, 0, <<>>)
    /\ Cmd \in [req : MessageTypes, resp : MessageTypes]
    /\ pc = "connect"
    /\ resp_header = NoHdr
    /\ reader = None
    /\ codec = NoCodec
    /\ rsa = NoRsa

Init == HostInit \/ ClientInit

----------------------------------------------------------------------------
(* TcpHostPort operations. *)

\* TcpHostPort::receive, the accept failing
receive_accept_fails ==
    /\ role = "host"
    /\ stream' = None
    /\ conn' = Dropped(conn)
    /\ last' = Ret("receive", "Io(Internal)", NoHdr, 0, 0, <<>>)
    /\ UNCHANGED <<role, client, codec, rsa, output_buffer, nconn>>

\* TcpHostPort::receive, a peer connecting and transmitting p
receive ==
    /\ role = "host"
    /\ nconn < MaxConns
    /\ \E a \in Arrivals :
         LET r == a.r
             c == [avail |-> a.p.sent - r.took, frames |-> 0, begun |-> FALSE]
         IN  /\ nconn' = nconn + 1
             /\ conn' = IF r.res = "Ok" THEN c ELSE Dropped(c)
             /\ stream' = IF r.res = "Ok" THEN SomeStream(r.header, r.len) ELSE None
             /\ last' = Ret("receive", r.res, r.header, r.len, r.took, <<>>)
    /\ UNCHANGED <<role, client, codec, rsa, output_buffer>>

header ==
    /\ role = "host"
    /\ LET r == Inner_header(stream, output_buffer)
       IN  last' = Ret("header", r.res, r.hdr, 0, 0, <<>>)
    /\ UNCHANGED <<role, client, codec, rsa, stream, output_buffer, nconn, conn>>

payload ==
    /\ role = "host"
    /\ LET r == Inner_payload(stream, output_buffer)
       IN  last' = Ret("payload", r.res, NoHdr, 0, 0, <<>>)
    /\ UNCHANGED <<role, client, codec, rsa, stream, output_buffer, nconn, conn>>

\* a read through the reader that payload() returned
read_bytes ==
    /\ role = "host"
    /\ \/ last.op = "payload" /\ last.res = "Ok"
       \/ last.op = "read_bytes"
    /\ \E n \in 0..MaxRead :
         LET r == Inner_read_bytes(stream, conn.avail, n)
         IN  /\ stream' = r.stream
             /\ conn' = [conn EXCEPT !.avail = @ - r.took]
             /\ last' = Ret("read_bytes", r.res, NoHdr, n, r.took, <<>>)
    /\ UNCHANGED <<role, client, codec, rsa, output_buffer, nconn>>

reply ==
    /\ role = "host"
    /\ \E h \in CommandType :
         LET r == Inner_reply(stream, output_buffer, h)
         IN  /\ output_buffer' = r.output_buffer
             /\ conn' = IF r.res = "Ok" THEN [conn EXCEPT !.begun = TRUE] ELSE conn
             /\ last' = Ret("reply", r.res, h, 0, 0, <<>>)
    /\ UNCHANGED <<role, client, codec, rsa, stream, nconn>>

sink ==
    /\ role = "host"
    /\ LET r == Inner_sink(stream, output_buffer)
       IN  last' = Ret("sink", r.res, NoHdr, 0, 0, <<>>)
    /\ UNCHANGED <<role, client, codec, rsa, stream, output_buffer, nconn, conn>>

\* a write through the writer that sink() returned
sink_write ==
    /\ role = "host"
    /\ \/ last.op = "sink" /\ last.res = "Ok"
       \/ last.op = "write_bytes"
    /\ Len(output_buffer.buf) < MaxBuf
    /\ \E b \in SinkBytes :
         /\ output_buffer' = write_bytes(output_buffer, <<b>>)
         /\ last' = Ret("write_bytes", "Ok", NoHdr, 1, 0, <<>>)
    /\ UNCHANGED <<role, client, codec, rsa, stream, nconn, conn>>

\* the ways the transport can fail a finish(): no failure, the header
\* write_all failing after k bytes, the payload write_all failing after k
\* bytes, the flush failing
Faults(w) ==
    {[at |-> "none", k |-> 0], [at |-> "flush", k |-> 0]}
    \cup [at : {"header"}, k : 0..2]
    \cup [at : {"payload"}, k : 0..(Len(w.buf) - 1)]

\* the connection after a finish() met by transport failure `fail`: the
\* Writer is consumed, and the whole frame has been written unless one of the
\* two write_all calls failed
Written(c, fail) ==
    [c EXCEPT !.frames = IF fail \in {"none", "flush"} THEN @ + 1 ELSE @,
              !.begun = FALSE]

finish ==
    /\ role = "host"
    /\ \/ /\ stream.some /\ output_buffer.some
          /\ \E f \in Faults(output_buffer) :
               LET r == Inner_finish(stream, output_buffer, f.at, f.k)
                   c == Written(conn, f.at)
               IN  /\ c.frames <= MaxFrames
                   /\ stream' = r.stream
                   /\ output_buffer' = r.output_buffer
                   /\ conn' = IF r.stream.some THEN c ELSE Dropped(c)
                   /\ last' = Ret("finish", r.res, NoHdr, 0, 0, r.wrote)
       \/ /\ ~(stream.some /\ output_buffer.some)
          /\ LET r == Inner_finish(stream, output_buffer, "none", 0)
             IN  /\ stream' = r.stream
                 /\ output_buffer' = r.output_buffer
                 /\ last' = Ret("finish", r.res, NoHdr, 0, 0, r.wrote)
          /\ UNCHANGED conn
    /\ UNCHANGED <<role, client, codec, rsa, nconn>>

----------------------------------------------------------------------------
(* send_local. *)

\* impl io::Read for Reader (inside send_local); avail as for Inner
Reader_read_bytes(rd, avail, n) ==
    IF rd.len < n THEN [res |-> "BufferExhausted", reader |-> rd, took |-> 0]
    ELSE IF avail < n THEN [res |-> "Internal", reader |-> rd, took |-> avail]
    ELSE [res |-> "Ok", reader |-> [rd EXCEPT !.len = @ - n], took |-> n]

\* Reader::remaining_data
Reader_remaining_data(rd) == rd.len

\* send_local without the branch for CommandType::Error
send_local_dispatch_no_error(h, cmd) ==
    IF h = cmd.resp THEN "from_wire_resp" ELSE "BadHeader"

\* the branch send_local takes on the response header h
send_local_dispatch(h, cmd) ==
    IF h = cmd.resp THEN "from_wire_resp"
    ELSE IF h = "Error" THEN "from_wire_err"
    ELSE "BadHeader"

\* the byte strings a request serializes to
Bodies == UNION {[1..n -> SinkBytes] : n \in 0..MaxBuf}

\* TcpStream::connect
connect ==
    /\ role = "client" /\ pc = "connect"
    /\ \/ /\ pc' = "serialize"
          /\ nconn' = nconn + 1
          /\ last' = Ret("connect", "Ok", NoHdr, 0, 0, <<>>)
       \/ /\ pc' = "done"
          /\ last' = Ret("connect", "Io(Internal)", NoHdr, 0, 0, <<>>)
          /\ UNCHANGED nconn
    /\ UNCHANGED <<role, stream, output_buffer, conn, Cmd, resp_header, reader, codec, rsa>>

\* req.to_wire(&mut writer)? failing
to_wire_fails ==
    /\ role = "client" /\ pc = "serialize"
    /\ pc' = "done"
    /\ last' = Ret("to_wire", "Wire", Cmd.req, 0, 0, <<>>)
    /\ UNCHANGED <<role, stream, output_buffer, nconn, conn, Cmd, resp_header, reader, codec, rsa>>

\* Writer::new, req.to_wire(&mut writer)?, writer.finish(&mut conn)?
send_request ==
    /\ role = "client" /\ pc = "serialize"
    /\ \E body \in Bodies :
         LET w == write_bytes(Writer_new(Cmd.req), body)
         IN  \E f \in Faults(w) \ {[at |-> "flush", k |-> 0]} :
               LET r == Writer_finish(w, f.at, f.k)
               IN  /\ conn' = Written(conn, f.at)
                   /\ pc' = IF r.res = "Ok" THEN "await" ELSE "done"
                   /\ last' = Ret("Writer::finish", r.res, Cmd.req, Len(body), 0, r.wrote)
    /\ UNCHANGED <<role, stream, output_buffer, nconn, Cmd, resp_header, reader, codec, rsa>>

\* header_from_wire(&mut conn)?, Reader(conn, len)
await_header ==
    /\ role = "client" /\ pc = "await"
    /\ \E a \in Arrivals :
         /\ conn' = [conn EXCEPT !.avail = a.p.sent - a.r.took]
         /\ resp_header' = a.r.header
         /\ reader' = IF a.r.res = "Ok" THEN [some |-> TRUE, len |-> a.r.len] ELSE None
         /\ pc' = IF a.r.res = "Ok" THEN "dispatch" ELSE "done"
         /\ last' = Ret("header_from_wire", a.r.res, a.r.header, 0, a.r.took, <<>>)
    /\ UNCHANGED <<role, stream, output_buffer, nconn, Cmd, codec, rsa>>

\* the if / else if / else on header.command
dispatch ==
    /\ role = "client" /\ pc = "dispatch"
    /\ LET d == send_local_dispatch(resp_header, Cmd)
       IN  /\ pc' = IF d = "BadHeader" THEN "done" ELSE d
           /\ last' = Ret("dispatch", IF d = "BadHeader" THEN "BadHeader" ELSE "Ok",
                          resp_header, 0, 0, <<>>)
    /\ UNCHANGED <<role, stream, output_buffer, nconn, conn, Cmd, resp_header, reader, codec, rsa>>

\* a read FromWire::from_wire makes through the Reader
reader_read ==
    /\ role = "client" /\ pc \in {"from_wire_resp", "from_wire_err"}
    /\ \E n \in 0..MaxRead :
         LET r == Reader_read_bytes(reader, conn.avail, n)
         IN  /\ reader' = r.reader
             /\ conn' = [conn EXCEPT !.avail = @ - r.took]
             /\ last' = Ret("Reader::read_bytes", r.res, NoHdr, n, r.took, <<>>)
    /\ UNCHANGED <<role, stream, output_buffer, nconn, Cmd, pc, resp_header, codec, rsa>>

\* FromWire::from_wire returning: send_local returns Ok(Ok(resp)),
\* Ok(Err(error)) or the decoding failure
from_wire_returns ==
    /\ role = "client" /\ pc \in {"from_wire_resp", "from_wire_err"}
    /\ \E ok \in BOOLEAN :
         last' = Ret("from_wire",
                     IF ~ok THEN "Wire"
                     ELSE IF pc = "from_wire_resp" THEN "Ok(Ok)" ELSE "Ok(Err)",
                     resp_header, 0, 0, <<>>)
    /\ pc' = "done"
    /\ UNCHANGED <<role, stream, output_buffer, nconn, conn, Cmd, resp_header, reader, codec, rsa>>

----------------------------------------------------------------------------
(* The codec on its own: a header and a buffer length through               *)
(* Writer::finish's three header bytes and back through header_from_wire.  *)

CodecLens == 0..(U16_MAX + MaxOverflow)

CodecInit ==
    /\ role = "codec"
    /\ stream = None
    /\ output_buffer = None
    /\ nconn = 0
    /\ conn = NoConn
    /\ last = Ret("-", "-", NoHdr, 0, 0, <<>>)
    /\ Cmd = [req |-> NoHdr, resp |-> NoHdr]
    /\ pc = "-"
    /\ resp_header = NoHdr
    /\ reader = None
    /\ codec \in [pc : {"start"}, h : CommandType, n : CodecLens, cmd : {0},
                   wire : {<<>>}, res : {"-"}, header : {NoHdr}, len : {0}]
    /\ rsa = NoRsa

encode ==
    /\ role = "codec" /\ codec.pc = "start"
    /\ codec' = [codec EXCEPT !.pc = "encoded", !.cmd = to_wire_value(codec.h),
                              !.wire = wire_header(codec.h, codec.n)]
    /\ UNCHANGED <<role, stream, output_buffer, nconn, conn, last, client, rsa>>

\* decoding the encoded bytes
decode ==
    /\ role = "codec" /\ codec.pc = "encoded"
    /\ LET r == header_from_wire([cmd |-> codec.wire[1], lo |-> codec.wire[2],
                                  hi |-> codec.wire[3], sent |-> 3])
       IN  codec' = [codec EXCEPT !.pc = "decoded", !.res = r.res,
                                  !.header = r.header, !.len = r.len]
    /\ UNCHANGED <<role, stream, output_buffer, nconn, conn, last, client, rsa>>

\* decoding the encoded bytes with the command byte replaced by a bad one
decode_other ==
    /\ role = "codec" /\ codec.pc = "encoded"
    /\ \E b \in BadCmdBytes :
         LET r == header_from_wire([cmd |-> b, lo |-> codec.wire[2],
                                    hi |-> codec.wire[3], sent |-> 3])
         IN  codec' = [codec EXCEPT !.pc = "decoded", !.cmd = b, !.res = r.res,
                                    !.header = r.header, !.len = r.len]
    /\ UNCHANGED <<role, stream, output_buffer, nconn, conn, last, client, rsa>>

CodecNext == encode \/ decode \/ decode_other

CodecSpec == CodecInit /\ [][CodecNext]_vars

----------------------------------------------------------------------------
(* crypto::rsa: ModulusLength and Error. *)

ModulusLength == {"Bits2048", "Bits3072", "Bits4096"}

\* usize::MAX of the narrowed word
USIZE_MAX == 2^WordBits - 1
Words == 0..USIZE_MAX

\* Option<ModulusLength>
Some(m) == [some |-> TRUE, val |-> m]

\* ModulusLength::bit_len
bit_len(m) ==
    CASE m = "Bits2048" -> 2048
      [] m = "Bits3072" -> 3072
      [] m = "Bits4096" -> 4096

\* byte_len returning the length in bits
byte_len_in_bits(m) == bit_len(m)

\* ModulusLength::byte_len
byte_len(m) == bit_len(m) \div 8

\* ModulusLength::from_bit_len
from_bit_len(len) ==
    CASE len = 2048 -> Some("Bits2048")
      [] len = 3072 -> Some("Bits3072")
      [] len = 4096 -> Some("Bits4096")
      [] OTHER -> None

\* ModulusLength::from_byte_len.  `len * 8` on a word: when the product does
\* not fit, a build with overflow checks panics and one without wraps.
from_byte_len(len, overflow_checks) ==
    IF len * 8 > USIZE_MAX /\ overflow_checks
    THEN [panic |-> TRUE, val |-> None]
    ELSE [panic |-> FALSE, val |-> from_bit_len((len * 8) % (USIZE_MAX + 1))]

\* the unit value ()
Unit == "()"

\* the values of a backend's error type E
BackendErrors == {"E1", "E2", "E3"}

\* Error::Custom
Custom(x) == [tag |-> "Custom", payload |-> x]

\* erased() handing the error back as it is
erased_kept(e) == e

\* Error::erased
erased(e) == CASE e.tag = "Custom" -> Custom(Unit)

\* a word for the from_* constructors, a ModulusLength for the length
\* accessors, or two backend errors for erased()
RsaInit ==
    /\ role = "rsa"
    /\ stream = None
    /\ output_buffer = None
    /\ nconn = 0
    /\ conn = NoConn
    /\ last = Ret("-", "-", NoHdr, 0, 0, <<>>)
    /\ Cmd = [req |-> NoHdr, resp |-> NoHdr]
    /\ pc = "-"
    /\ resp_header = NoHdr
    /\ reader = None
    /\ codec = NoCodec
    /\ rsa \in [kind : {"word"}, pc : {"start"}, n : Words, out : {<<>>}]
               \cup [kind : {"modulus"}, pc : {"start"}, m : ModulusLength, out : {<<>>}]
               \cup [kind : {"error"}, pc : {"start"}, x : BackendErrors,
                      y : BackendErrors, out : {<<>>}]

\* ModulusLength::from_bit_len(n)
call_from_bit_len ==
    /\ role = "rsa" /\ rsa.kind = "word" /\ rsa.pc = "start"
    /\ rsa' = [rsa EXCEPT !.pc = "from_bit_len", !.out = from_bit_len(rsa.n)]
    /\ UNCHANGED <<role, stream, output_buffer, nconn, conn, last, client, codec>>

\* ModulusLength::from_byte_len(n), in a build with or without overflow checks
call_from_byte_len ==
    /\ role = "rsa" /\ rsa.kind = "word" /\ rsa.pc = "start"
    /\ \E overflow_checks \in BOOLEAN :
         rsa' = [rsa EXCEPT !.pc = "from_byte_len",
                            !.out = from_byte_len(rsa.n, overflow_checks)]
    /\ UNCHANGED <<role, stream, output_buffer, nconn, conn, last, client, codec>>

\* m.bit_len() and m.byte_len()
call_lens ==
    /\ role = "rsa" /\ rsa.kind = "modulus" /\ rsa.pc = "start"
    /\ rsa' = [rsa EXCEPT !.pc = "lens",
                          !.out = [bit_len |-> bit_len(rsa.m), byte_len |-> byte_len(rsa.m)]]
    /\ UNCHANGED <<role, stream, output_buffer, nconn, conn, last, client, codec>>

\* from_bit_len(m.bit_len()) and from_byte_len(m.byte_len())
call_back ==
    /\ role = "rsa" /\ rsa.kind = "modulus" /\ rsa.pc = "lens"
    /\ \E overflow_checks \in BOOLEAN :
         rsa' = [rsa EXCEPT !.pc = "back",
                            !.out = [bit_len |-> rsa.out.bit_len,
                                     byte_len |-> rsa.out.byte_len,
                                     from_bit_len |-> from_bit_len(rsa.out.bit_len),
                                     from_byte_len |->
                                        from_byte_len(rsa.out.byte_len, overflow_checks)]]
    /\ UNCHANGED <<role, stream, output_buffer, nconn, conn, last, client, codec>>

\* Error::Custom(x).erased() and Error::Custom(y).erased()
call_erased ==
    /\ role = "rsa" /\ rsa.kind = "error" /\ rsa.pc = "start"
    /\ rsa' = [rsa EXCEPT !.pc = "erased",
                          !.out = <<erased(Custom(rsa.x)), erased(Custom(rsa.y))>>]
    /\ UNCHANGED <<role, stream, output_buffer, nconn, conn, last, client, codec>>

\* erased() of the two erased errors
call_erased_again ==
    /\ role = "rsa" /\ rsa.kind = "error" /\ rsa.pc = "erased"
    /\ rsa' = [rsa EXCEPT !.pc = "erased twice",
                          !.out = <<erased(rsa.out[1]), erased(rsa.out[2])>>]
    /\ UNCHANGED <<role, stream, output_buffer, nconn, conn, last, client, codec>>

RsaNext ==
    \/ call_from_bit_len
    \/ call_from_byte_len
    \/ call_lens
    \/ call_back
    \/ call_erased
    \/ call_erased_again

RsaSpec == RsaInit /\ [][RsaNext]_vars

----------------------------------------------------------------------------
Next ==
    \/ receive_accept_fails
    \/ receive
    \/ header
    \/ payload
    \/ read_bytes
    \/ reply
    \/ sink
    \/ sink_write
    \/ finish
    \/ connect
    \/ to_wire_fails
    \/ send_request
    \/ await_header
    \/ dispatch
    \/ reader_read
    \/ from_wire_returns

Spec == Init /\ [][Next]_vars

----------------------------------------------------------------------------
(* The session states the properties speak of. *)

Host == role = "host"
Live == stream.some
Pending == output_buffer.some
Idle == ~stream.some /\ ~output_buffer.some
Rejected(res) == res # "Ok"

\* header(), payload(), reply(), sink() and finish() are all rejected
AllRejected ==
    /\ Rejected(Inner_header(stream, output_buffer).res)
    /\ Rejected(Inner_payload(stream, output_buffer).res)
    /\ \A h \in CommandType : Rejected(Inner_reply(stream, output_buffer, h).res)
    /\ Rejected(Inner_sink(stream, output_buffer).res)
    /\ Rejected(Inner_finish(stream, output_buffer, "none", 0).res)

SessionOps == {"header", "payload", "reply", "sink", "finish"}

----------------------------------------------------------------------------
(* Properties. *)

\* C1: whenever receive() returns successfully the previous session's state
\* has been discarded: no response writer is pending, header() returns the
\* header just parsed from the new connection, and reply() is accepted.
C1_ReceiveDiscardsSession ==
    (Host /\ last.op = "receive" /\ last.res = "Ok") =>
        /\ ~output_buffer.some
        /\ Inner_header(stream, output_buffer) = [res |-> "Ok", hdr |-> last.hdr]
        /\ \A h \in CommandType : Inner_reply(stream, output_buffer, h).res = "Ok"

\* C2: with a connection live and a reply begun, header() and payload() each
\* fail with OutOfOrder and leave the session state unchanged.
C2_RequestOpsAfterReply ==
    [][(Host /\ Live /\ Pending /\ last'.op \in {"header", "payload"}) =>
          /\ last'.res = "OutOfOrder"
          /\ stream' = stream
          /\ output_buffer' = output_buffer
          /\ conn' = conn]_vars

C2_Witness ==
    /\ Host /\ Live /\ Pending
    /\ last.op = "payload" /\ last.res = "OutOfOrder"
    /\ Len(output_buffer.buf) > 0

\* C3 as claimed: on a live connection on which reply() has not been called,
\* sink() fails with OutOfOrder and finish() fails with OutOfOrder.
C3_AsClaimed ==
    [][(Host /\ Live /\ ~Pending /\ last'.op \in {"sink", "finish"}) =>
          last'.res = "OutOfOrder"]_vars

\* C3 as amended: on a live connection on which reply() has not been called,
\* sink() fails with OutOfOrder and finish() fails with Disconnected.
C3_SinkFinishBeforeReply ==
    [][(Host /\ Live /\ ~Pending) =>
          /\ last'.op = "sink" => last'.res = "OutOfOrder"
          /\ last'.op = "finish" => last'.res = "Disconnected"]_vars

C3_Witness ==
    /\ Host /\ Live /\ ~Pending
    /\ last.op = "finish" /\ last.res = "Disconnected"
    /\ conn.frames = 0 /\ nconn = 1

\* C4: with no accepted connection live, each of header(), payload(), reply(),
\* sink() and finish() fails with Disconnected, whatever else the session
\* holds (a response writer left over from an earlier reply() included).
C4_DisconnectedWithoutConnection ==
    [][(Host /\ ~Live /\ last'.op \in SessionOps) =>
          last'.res = "Disconnected"]_vars

\* C5: a finish() that succeeds leaves the session Idle (no live connection,
\* no pending writer); while Idle, header(), payload(), reply(), sink() and
\* finish() are all rejected, and only a successful receive() ends Idle.
C5_FinishResetsToIdle ==
    [][Host =>
          /\ (last'.op = "finish" /\ last'.res = "Ok") => Idle'
          /\ Idle => AllRejected
          /\ (Idle /\ last'.op \in SessionOps) => (Rejected(last'.res) /\ Idle')
          /\ (Idle /\ ~Idle') => (last'.op = "receive" /\ last'.res = "Ok")]_vars

C5_Witness ==
    /\ Host /\ Idle
    /\ last.op = "finish" /\ last.res = "Ok"
    /\ Len(last.wrote) > 3

\* C6: finish() called with no live connection or with no reply begun fails
\* with Disconnected, writes no bytes to any connection, and leaves the
\* connection and writer state unchanged.
C6_FinishUnmetPrecondition ==
    [][(Host /\ ~(Live /\ Pending) /\ last'.op = "finish") =>
          /\ last'.res = "Disconnected"
          /\ last'.wrote = <<>>
          /\ stream' = stream
          /\ output_buffer' = output_buffer
          /\ conn' = conn]_vars

C6_Witness ==
    /\ Host /\ ~Live /\ ~Pending
    /\ last.op = "finish" /\ last.res = "Disconnected"
    /\ conn.frames = 1

\* C7: reply(h) succeeds only when a connection is live and no reply is
\* pending; reply() while a reply is pending fails with OutOfOrder and leaves
\* the pending writer unchanged, and the frame a later finish() sends is that
\* writer's header and buffered bytes.
C7_ReplyWhilePending ==
    [][Host =>
          /\ (last'.op = "reply" /\ last'.res = "Ok") => (Live /\ ~Pending)
          /\ (last'.op = "reply" /\ Live /\ Pending) =>
                /\ last'.res = "OutOfOrder"
                /\ output_buffer' = output_buffer
                /\ stream' = stream
          /\ (last'.op = "finish" /\ last'.res = "Ok") =>
                last'.wrote = wire_header(output_buffer.header, Len(output_buffer.buf))
                                \o output_buffer.buf]_vars

C7_Witness ==
    /\ Host /\ Live /\ Pending
    /\ last.op = "reply" /\ last.res = "OutOfOrder"
    /\ last.hdr # output_buffer.header
    /\ Len(output_buffer.buf) > 0

\* C8: for the bounded reader with remaining budget B (Inner on the server,
\* Reader in send_local): a read of n > B bytes fails with BufferExhausted,
\* reads nothing from the stream and leaves the budget at B; a read of
\* n <= B bytes whose underlying read succeeds leaves the budget at B - n.
C8_BoundedReader ==
    [][/\ (Host /\ Live /\ last'.op = "read_bytes") =>
            /\ last'.n > stream.len =>
                  /\ last'.res = "BufferExhausted"
                  /\ last'.took = 0
                  /\ stream' = stream
                  /\ conn' = conn
            /\ (last'.n <= stream.len /\ last'.n <= conn.avail) =>
                  /\ last'.res = "Ok"
                  /\ stream'.len = stream.len - last'.n
                  /\ Inner_remaining_data(stream') = stream.len - last'.n
       /\ (role = "client" /\ last'.op = "Reader::read_bytes") =>
            /\ last'.n > reader.len =>
                  /\ last'.res = "BufferExhausted"
                  /\ last'.took = 0
                  /\ reader' = reader
                  /\ conn' = conn
            /\ (last'.n <= reader.len /\ last'.n <= conn.avail) =>
                  /\ last'.res = "Ok"
                  /\ Reader_remaining_data(reader') = reader.len - last'.n]_vars

C8_Witness ==
    /\ Host /\ Live
    /\ last.op = "read_bytes" /\ last.res = "BufferExhausted"
    /\ stream.len = 1 /\ last.n = 2 /\ conn.avail >= 1

\* every transmission of three bytes or more whose first byte is the wire
\* value of no CommandType is decoded to BadHeader, three bytes consumed
BadArrivalsRejected ==
    \A a \in Arrivals :
        (a.p.sent >= 3 /\ a.p.cmd \notin {to_wire_value(c) : c \in CommandType})
            => (a.r.res = "BadHeader" /\ a.r.took = 3)

\* C10: when the first byte of an incoming frame is the wire value of no
\* CommandType, header decoding fails with BadHeader after consuming exactly
\* the 3 header bytes; receive() returns that error and the session holds no
\* connection (and is otherwise as it was).
C10_BadCommandByte ==
    [][Host =>
          /\ BadArrivalsRejected
          /\ (last'.op = "receive" /\ last'.res = "BadHeader") =>
                /\ last'.took = 3
                /\ ~stream'.some
                /\ output_buffer' = output_buffer
                /\ Idle => Idle']_vars

C10_Witness ==
    /\ Host /\ Idle
    /\ last.op = "receive" /\ last.res = "BadHeader" /\ last.took = 3
    /\ nconn = 2

\* C12: end-to-end framing.  A successful reply(h) starts an empty response
\* for h; each sink() write appends its bytes to it, in call order, and
\* nothing else changes it; nothing is sent to the peer by any call but
\* finish(); a successful finish() of a response of at most 65535 bytes sends
\* exactly one frame: h's command byte, the total number of bytes written as
\* the length field (low byte first), and the bytes written in call order.
C12_EndToEndFraming ==
    [][Host =>
          /\ (last'.op = "reply" /\ last'.res = "Ok") =>
                output_buffer' = [some |-> TRUE, header |-> last'.hdr, buf |-> <<>>]
          /\ last'.op = "write_bytes" =>
                /\ Pending
                /\ \E b \in SinkBytes :
                      output_buffer' = [output_buffer EXCEPT !.buf = Append(@, b)]
          /\ (last'.op \notin {"write_bytes", "finish"}
                  /\ ~(last'.op = "reply" /\ last'.res = "Ok")) =>
                output_buffer' = output_buffer
          /\ last'.op # "finish" => last'.wrote = <<>>
          /\ last'.op \notin {"finish", "receive"} => conn'.frames = conn.frames
          /\ (last'.op = "finish" /\ last'.res = "Ok"
                  /\ Len(output_buffer.buf) <= U16_MAX) =>
                /\ last'.wrote =
                      <<to_wire_value(output_buffer.header),
                        Len(output_buffer.buf) % 256,
                        Len(output_buffer.buf) \div 256>> \o output_buffer.buf
                /\ conn'.frames = conn.frames + 1]_vars

\* scenario A of the specification: reply with command byte 2 and payload
\* [0xAA, 0xBB]
C12_Witness ==
    /\ Host /\ last.op = "finish" /\ last.res = "Ok"
    /\ last.wrote = <<2, 2, 0, 170, 187>>
    /\ conn.frames = 1

\* C13: send_local classifies the response frame by its command tag: a tag
\* equal to the expected success-response type is decoded as the success
\* value; otherwise the Error tag is decoded as a protocol-error value, never
\* as a success; every other tag yields BadHeader, after which send_local has
\* returned and nothing of the payload is read.
C13_SendLocalClassifies ==
    [][role = "client" =>
          /\ pc # "done"
          /\ last'.op = "dispatch" =>
                /\ resp_header = Cmd.resp =>
                      (pc' = "from_wire_resp" /\ last'.res = "Ok")
                /\ (resp_header # Cmd.resp /\ resp_header = "Error") =>
                      (pc' = "from_wire_err" /\ last'.res = "Ok")
                /\ (resp_header # Cmd.resp /\ resp_header # "Error") =>
                      /\ last'.res = "BadHeader"
                      /\ pc' = "done"
                      /\ conn' = conn
                      /\ reader' = reader
          /\ last'.op = "Reader::read_bytes" => resp_header \in {Cmd.resp, "Error"}
          /\ last'.res = "Ok(Ok)" => resp_header = Cmd.resp
          /\ last'.res = "Ok(Err)" =>
                (resp_header = "Error" /\ resp_header # Cmd.resp)]_vars

\* scenario B of the specification: the server replies with the Error
\* command and a payload, which send_local returns as Ok(Err(..))
C13_Witness ==
    /\ role = "client" /\ pc = "done"
    /\ last.op = "from_wire" /\ last.res = "Ok(Err)"
    /\ resp_header = "Error" /\ Cmd.resp = "Cmd02"
    /\ reader.some /\ reader.len = 0 /\ conn.avail = 0

\* C14: every transport I/O failure (connect, accept, header read, payload
\* read, frame write, flush) is reported as the internal-I/O error kind: a
\* call that touches the transport returns Ok, one of the protocol errors
\* that are no transport failure (BadHeader, Disconnected, or BufferExhausted
\* for a read past the payload budget), or Io(Internal) / io::Error::Internal;
\* in particular a failed write in Writer::finish surfaces as Io(Internal).
C14_IoFailuresAreInternal ==
    /\ last.op \in {"receive", "connect", "header_from_wire", "finish", "Writer::finish"} =>
          last.res \in {"Ok", "BadHeader", "Disconnected", "Io(Internal)"}
    /\ last.op \in {"read_bytes", "Reader::read_bytes"} =>
          last.res \in {"Ok", "BufferExhausted", "Internal"}

\* C18: for each accepted connection at most one complete response frame
\* (header plus payload) is ever written to it, over every sequence of
\* operations and every pattern of I/O failures, a failed finish() followed
\* by another reply() and finish() included.
C18_OneFramePerConnection ==
    Host => conn.frames <= 1

\* C19: no response data crosses connections: whenever finish() writes to a
\* connection, the Writer it sends (header and buffered bytes) comes from a
\* reply() that succeeded after that same connection was accepted; nothing
\* buffered during an earlier connection's session is sent to a later peer.
C19_NoDataCrossesConnections ==
    [][(Host /\ last'.op = "finish" /\ last'.wrote # <<>>) => conn.begun]_vars

\* C20: the payload reader is forward-only within a session: after a
\* successful receive() remaining() is the declared payload length L; a
\* successful read of n bytes lowers it by n and a failed read leaves it, so
\* it is L minus the successful reads and never increases; payload() and
\* header() change neither the budget nor the stream position; with no live
\* connection remaining() is 0 and every read fails.
C20_ForwardOnlyReader ==
    [][Host =>
          /\ (last'.op = "receive" /\ last'.res = "Ok") =>
                Inner_remaining_data(stream') = last'.n
          /\ last'.op = "read_bytes" =>
                Inner_remaining_data(stream') =
                    Inner_remaining_data(stream)
                        - (IF last'.res = "Ok" THEN last'.n ELSE 0)
          /\ last'.op \in {"header", "payload"} =>
                (stream' = stream /\ conn'.avail = conn.avail)
          /\ (Live /\ last'.op \notin {"receive", "read_bytes", "finish"}) =>
                stream' = stream
          /\ (Live /\ Live' /\ last'.op # "receive") =>
                Inner_remaining_data(stream') <= Inner_remaining_data(stream)
          /\ ~Live =>
                /\ Inner_remaining_data(stream) = 0
                /\ \A n \in 0..MaxRead :
                      LET r == Inner_read_bytes(stream, conn.avail, n)
                      IN  r.res # "Ok" /\ r.took = 0 /\ r.stream = stream]_vars

C20_Witness ==
    /\ Host /\ Live
    /\ last.op = "read_bytes" /\ last.res = "Ok" /\ last.n = 1
    /\ Inner_remaining_data(stream) = MaxPayloadLen - 1
    /\ conn.avail = 0

----------------------------------------------------------------------------
(* Properties of the codec, under CodecSpec. *)

\* C9: for every CommandType c and every payload length len in 0..65535,
\* decoding the 3 bytes Writer::finish emits for header c and a buffer of len
\* bytes yields (c, len), the length being carried low byte first.
C9_HeaderRoundTrip ==
    (role = "codec" /\ codec.n <= U16_MAX) =>
        /\ codec.pc # "start" =>
              codec.wire = <<to_wire_value(codec.h), codec.n % 256, codec.n \div 256>>
        /\ (codec.pc = "decoded" /\ codec.cmd = codec.wire[1]) =>
              /\ codec.res = "Ok"
              /\ codec.header = codec.h
              /\ codec.len = codec.n

C9_Witness ==
    /\ role = "codec" /\ codec.pc = "decoded"
    /\ codec.n = U16_MAX - 255 /\ codec.len = codec.n
    /\ codec.wire[2] = 0 /\ codec.wire[3] = 255

\* C11: Writer::finish never emits a frame whose 2-byte length field differs
\* from the number of payload bytes written after it, for every buffered
\* length, lengths greater than 65535 included (finish does not fail on them:
\* it has no failure but the transport's).
C11_LengthFieldIsBufferLength ==
    (role = "codec" /\ codec.pc # "start") =>
        from_le_bytes(codec.wire[2], codec.wire[3]) = codec.n

----------------------------------------------------------------------------
(* Properties of crypto::rsa, under RsaSpec. *)

\* C15: ModulusLength conversions round-trip: for every variant m,
\* byte_len(m) * 8 = bit_len(m), from_bit_len(bit_len(m)) = Some(m) and
\* from_byte_len(byte_len(m)) = Some(m); Bits2048 is 256 bytes and Bits3072
\* is 384 bytes.
C15_ModulusLengthRoundTrip ==
    (role = "rsa" /\ rsa.kind = "modulus" /\ rsa.pc # "start") =>
        /\ rsa.out.byte_len * 8 = rsa.out.bit_len
        /\ rsa.m = "Bits2048" => rsa.out.byte_len = 256
        /\ rsa.m = "Bits3072" => rsa.out.byte_len = 384
        /\ rsa.pc = "back" =>
              /\ rsa.out.from_bit_len = [some |-> TRUE, val |-> rsa.m]
              /\ rsa.out.from_byte_len =
                    [panic |-> FALSE, val |-> [some |-> TRUE, val |-> rsa.m]]

C15_Witness ==
    /\ role = "rsa" /\ rsa.kind = "modulus" /\ rsa.pc = "back"
    /\ rsa.m = "Bits3072" /\ rsa.out.byte_len = 384
    /\ rsa.out.from_byte_len.val.val = "Bits3072"

\* C16: construction of a ModulusLength from a word n is exact:
\* from_bit_len(n) returns a variant only when n is 2048, 3072 or 4096;
\* from_byte_len(n) returns a variant only when n is 256, 384 or 512 and
\* returns none for every other n, those whose n * 8 overflows the word
\* included.
C16_ConstructionIsExact ==
    (role = "rsa" /\ rsa.kind = "word") =>
        /\ rsa.pc = "from_bit_len" =>
              /\ rsa.n = 2048 => rsa.out = [some |-> TRUE, val |-> "Bits2048"]
              /\ rsa.n = 3072 => rsa.out = [some |-> TRUE, val |-> "Bits3072"]
              /\ rsa.n = 4096 => rsa.out = [some |-> TRUE, val |-> "Bits4096"]
              /\ rsa.n \notin {2048, 3072, 4096} => rsa.out = [some |-> FALSE]
        /\ rsa.pc = "from_byte_len" =>
              /\ rsa.n = 256 => rsa.out.val = [some |-> TRUE, val |-> "Bits2048"]
              /\ rsa.n = 384 => rsa.out.val = [some |-> TRUE, val |-> "Bits3072"]
              /\ rsa.n = 512 => rsa.out.val = [some |-> TRUE, val |-> "Bits4096"]
              /\ rsa.n \notin {256, 384, 512} =>
                    rsa.out = [panic |-> FALSE, val |-> [some |-> FALSE]]

\* C17: Error::Custom(x).erased() = Error::Custom(()) for every backend
\* error x, so two errors are equal after erasure whatever their payloads,
\* and erasing an erased error changes nothing.
C17_ErasureDiscardsPayload ==
    (role = "rsa" /\ rsa.kind = "error" /\ rsa.pc # "start") =>
        /\ rsa.out[1] = [tag |-> "Custom", payload |-> "()"]
        /\ rsa.out[2] = rsa.out[1]

C17_Witness ==
    /\ role = "rsa" /\ rsa.kind = "error" /\ rsa.pc = "erased twice"
    /\ rsa.x = "E1" /\ rsa.y = "E3"
    /\ rsa.out[1] = rsa.out[2]

====
